---- MODULE Spec2Model ----
(***************************************************************************)
(* State-machine model of src/stube.jsx: the App component (a rotatable    *)
(* 3x3x3 cube scene, a placeholder timed game session, and a leaderboard   *)
(* kept in a remote document store).                                       *)
(*                                                                         *)
(* React state (useState) and refs (useRef) are variables; every handler,  *)
(* effect and callback of the component is one action.  The browser, the   *)
(* identity provider and the document store are the environment: their     *)
(* events (pointer samples, resize, frames, auth changes, snapshots,       *)
(* write results, the clock) are the inputs of the actions.                *)
(*                                                                         *)
(* Units: pointer coordinates are pixels; rotation is kept in thousandths  *)
(* of a radian (rotationSpeed 0.005 = 5); lengths of the cube are kept in  *)
(* two-hundredths of a unit (cubeSize 1 = 200, gap 0.05 = 10) so that the  *)
(* halvings of the source are exact; time is in milliseconds.              *)
(***************************************************************************)
EXTENDS Integers, Sequences, FiniteSets, TLC

VARIABLES
    \* ---- module-level configuration (lines 8-10)
    firebaseConfig,      \* TRUE iff __firebase_config is defined (line 9)
    \* ---- React state of App (lines 15-23)
    db,                  \* TRUE iff the Firestore handle is set (line 15)
    auth,                \* TRUE iff the Auth handle is set (line 16)
    userId,              \* NoUser or a uid (line 17)
    isAuthReady,         \* line 18
    leaderboardData,     \* sequence of entries [id, score] (line 19)
    score,               \* line 20
    startTime,           \* NullTime or a Date.now() value (line 21)
    isPlaying,           \* line 22
    message,             \* status line, [kind, arg] (line 23)
    view,                \* what the last render put in the DOM (lines 288-309)
    \* ---- component lifecycle
    mounted,             \* effects are set up and not yet cleaned up
    mountCount,          \* number of effect set-ups so far
    \* ---- identity provider
    authSubscribed,      \* the onAuthStateChanged listener is registered
    authEventPending,    \* the provider owes the listener a callback
    currentUser,         \* the provider's signed-in user (NoUser or uid)
    signInPending,       \* a signIn... promise is in flight
    signInCalls,         \* number of sign-in attempts made
    \* ---- remote document store
    storeDocs,           \* scores of the collection's documents, by doc id
    appended,            \* documents added since construction
    snapshotSubscribed,  \* the onSnapshot listener is registered
    snapshotPending,     \* the store has a snapshot of the query to emit
    inflight,            \* addDoc requests not yet answered, [userId, score]
    addDocCalls,         \* number of addDoc calls made
    \* ---- clock
    now,                 \* current value of Date.now()
    \* ---- scene effect (lines 129-267)
    containerSize,       \* <<clientWidth, clientHeight>> of the mount div
    scenes,              \* one record per run of the scene effect
    listeners,           \* event types whose listener is registered
    cubeSize,            \* line 147
    gap,                 \* line 148
    cubelets,            \* the local array of the latest scene effect run,
                         \* as mesh ids
    groupChildren,       \* children of cubeGroupRef.current, as mesh ids
    rotation,            \* cubeGroupRef.current.rotation, [x, y]
    isDragging,          \* line 213
    previousMousePosition, \* line 214
    \* ---- history (not program state)
    lastAct,             \* name of the last handler that ran
    startedAt,           \* the clock at the last start
    drag                 \* the current drag: its last sample (xn, yn) and the
                         \* orientation due, i.e. the orientation at the
                         \* press plus rotationSpeed times the displacement
                         \* from the press to the last sample

configVars  == <<firebaseConfig>>
reactVars   == <<db, auth, userId, isAuthReady, leaderboardData, score,
                 startTime, isPlaying, message, view>>
lifeVars    == <<mounted, mountCount>>
authVars    == <<authSubscribed, authEventPending, currentUser, signInPending,
                 signInCalls>>
storeVars   == <<storeDocs, appended, snapshotSubscribed, snapshotPending, inflight,
                 addDocCalls>>
sceneVars   == <<containerSize, scenes, listeners, cubeSize, gap, cubelets,
                 groupChildren>>
gestureVars == <<rotation, isDragging, previousMousePosition, drag>>
vars == <<configVars, reactVars, lifeVars, authVars, storeVars, now,
          sceneVars, gestureVars, lastAct, startedAt>>

(***************************************************************************)
(* Bounds of the model                                                     *)
(***************************************************************************)
MaxMounts  == 2     \* runs of the effects on one component instance
MaxSeconds == 2     \* the clock advances at most this far past ClockEpoch
MaxAppends == 2     \* documents added to the collection
MaxWrites  == 2     \* addDoc calls
MaxSignIns == 2     \* sign-in attempts
MaxCoord   == 1     \* pointer coordinates range over 0..MaxCoord
MaxTurn    == 1     \* |rotation| stays within MaxTurn pixels' worth
MaxFrames  == 2     \* frames counted per animation loop
MaxCell    == 7     \* cell sizes and gaps tried by the geometry spec
ClockEpoch == 1000  \* Date.now() at construction (any positive value)

TickSteps  == {400, 1000}      \* milliseconds the clock may jump
Scores     == {50, 90}         \* scores other clients write
\* What the collection may hold at construction: nothing, the three
\* entries of the specification's example, or as many as the query returns.
SeedCollections ==
    {<<>>, <<50, 90, 90>>, <<90, 50, 50, 90, 50, 90, 90, 50, 90, 50>>}
Sizes      == {<<300, 200>>, <<400, 200>>, <<300, 300>>}  \* container sizes

(***************************************************************************)
(* Values                                                                  *)
(***************************************************************************)
NoUser   == "null"            \* useState(null) for userId, line 17
Uid      == "uid1"
NullTime == -1                \* useState(null) for startTime, line 21

Msg(kind, arg) == [kind |-> kind, arg |-> arg]

\* JavaScript truthiness of a number-or-null (used by `if (startTime)` and
\* by `e.clientX || ...`): null, undefined and 0 are falsy.
Undefined == -2
TruthyNum(v) == v # NullTime /\ v # Undefined /\ v # 0
\* JavaScript truthiness of a string-or-null (used by `!userId`).
TruthyStr(s) == s # NoUser /\ s # ""

Min(a, b) == IF a <= b THEN a ELSE b
Abs(a) == IF a < 0 THEN -a ELSE a

(***************************************************************************)
(* Pure functions of the component                                         *)
(***************************************************************************)
QueryLimit == 10              \* limit(10), line 71

\* query(leaderboardCollectionRef, limit(10)) evaluated on a collection:
\* at most QueryLimit documents, each {id: doc.id, ...doc.data()} (line 74).
SnapshotDocs(docs) ==
    [i \in 1..Min(Len(docs), QueryLimit) |-> [id |-> i, score |-> docs[i]]]

CompareAscending(a, b) == a.score - b.score
\* The comparator of line 76, (a, b) => b.score - a.score.
Compare(a, b) == b.score - a.score

\* Array.prototype.sort is a stable sort: an element goes after every
\* element already placed that the comparator does not order after it.
RECURSIVE Insert(_, _)
Insert(sorted, e) ==
    IF sorted = <<>> THEN <<e>>
    ELSE IF Compare(Head(sorted), e) <= 0
         THEN <<Head(sorted)>> \o Insert(Tail(sorted), e)
         ELSE <<e>> \o sorted

RECURSIVE SortFrom(_, _)
SortFrom(sorted, rest) ==
    IF rest = <<>> THEN sorted
    ELSE SortFrom(Insert(sorted, Head(rest)), Tail(rest))

\* data.sort((a, b) => b.score - a.score), line 76.
SortByScore(data) == SortFrom(<<>>, data)

RenderNoScoreCheck(u, s, p) ==
    [startShown |-> ~p, endShown |-> p,
     submitDisabled |-> (~TruthyStr(u)) \/ p]
\* The three buttons of the render (lines 288-309).
Render(u, s, p) ==
    [startShown |-> ~p, endShown |-> p,
     submitDisabled |-> (~TruthyStr(u)) \/ s = 0 \/ p]

\* ---- geometry (lines 146-179)
totalCubeDim(s, g) == (s + g) * 3 - g                      \* line 149
startPos(s, g) == (s \div 2) - (totalCubeDim(s, g) \div 2) \* line 150

CubeletAtNoGap(x, y, z, s, g) ==
    [grid |-> <<x, y, z>>,
     position |-> <<startPos(s, g) + x * s,
                    startPos(s, g) + y * s,
                    startPos(s, g) + z * s>>]
\* lines 169-174: the mesh of grid cell (x, y, z) and its position.
CubeletAt(x, y, z, s, g) ==
    [grid |-> <<x, y, z>>,
     position |-> <<startPos(s, g) + x * (s + g),
                    startPos(s, g) + y * (s + g),
                    startPos(s, g) + z * (s + g)>>]

\* lines 152-179: the triple loop creates the meshes x-major, then y, then
\* z.  The meshes of the n-th run of the effect have the ids 27(n-1)+1 ..
\* 27n, in creation order; a mesh never moves, so its cell and position
\* are a function of its id.
CellCount == 27               \* 3 * 3 * 3, lines 153-155
Mesh(id, s, g) ==
    CubeletAt(((id - 1) % CellCount) \div 9,
              (((id - 1) % CellCount) \div 3) % 3, (id - 1) % 3, s, g)
BuildCubelets(n) == [i \in 1..CellCount |-> CellCount * (n - 1) + i]
MaterialCount == 4            \* lines 141-144

\* ---- camera aspect: the quotient w / h, kept as a reduced fraction.
RECURSIVE GCD(_, _)
GCD(a, b) == IF b = 0 THEN a ELSE GCD(b, a % b)
Quotient(w, h) == <<w \div GCD(w, h), h \div GCD(w, h)>>

(***************************************************************************)
(* Initial state: App has been constructed and rendered once; no effect    *)
(* has run yet.                                                            *)
(***************************************************************************)
CubeSizeConst == 200          \* const cubeSize = 1, line 147
GapConst      == 10           \* const gap = 0.05, line 148
NoDrag == [pressed |-> FALSE, moved |-> FALSE, xn |-> 0, yn |-> 0,
           yawDue |-> 0, pitchDue |-> 0]

InitCommon ==
    /\ db = FALSE /\ auth = FALSE /\ userId = NoUser /\ isAuthReady = FALSE
    /\ leaderboardData = <<>> /\ score = 0 /\ startTime = NullTime
    /\ isPlaying = FALSE /\ message = Msg("None", 0)
    /\ view = Render(NoUser, 0, FALSE)
    /\ mounted = FALSE /\ mountCount = 0
    /\ authSubscribed = FALSE /\ authEventPending = FALSE
    /\ currentUser = NoUser /\ signInPending = FALSE /\ signInCalls = 0
    /\ appended = 0
    /\ snapshotSubscribed = FALSE
    /\ snapshotPending = FALSE /\ inflight = <<>> /\ addDocCalls = 0
    /\ now = ClockEpoch
    /\ containerSize = <<300, 200>>
    /\ scenes = <<>> /\ listeners = {}
    /\ cubelets = <<>> /\ groupChildren = <<>>
    /\ rotation = [x |-> 0, y |-> 0]
    /\ isDragging = FALSE /\ previousMousePosition = [x |-> 0, y |-> 0]
    /\ lastAct = "init" /\ drag = NoDrag /\ startedAt = NullTime

Init ==
    /\ InitCommon
    /\ firebaseConfig \in BOOLEAN
    /\ storeDocs \in SeedCollections
    /\ cubeSize = CubeSizeConst /\ gap = GapConst

(***************************************************************************)
(* Effects (lines 26-86, 129-267)                                          *)
(***************************************************************************)
Touch == {"touchstart", "touchmove", "touchend"}
Mouse == {"mousedown", "mousemove", "mouseup", "mouseleave"}

\* One run of the scene effect, lines 134-138 and 196-200: a camera with the
\* container's aspect, a renderer of the container's size whose canvas is
\* appended to the container, and an animation loop that has drawn its
\* first frame and requested the next.
NewScene(size) ==
    [aspect |-> Quotient(size[1], size[2]), size |-> size,
     attached |-> TRUE, disposed |-> FALSE,
     geometriesDisposed |-> 0, materialsDisposed |-> 0, cleared |-> FALSE,
     frameRequested |-> TRUE, frames |-> 1, staleFrames |-> 0]

\* Lines 252-266.  The removals and renderer.dispose() run; line 263 then
\* names `geometry`, a const of the innermost loop block (line 156) that
\* the cleanup closure cannot see: a ReferenceError ends the cleanup there,
\* so lines 263-265 release nothing.  No line cancels the frame request.
\* One statement of the cleanup acting on the registered listeners and the
\* effect run's scene; `thrown` records an uncaught error.
CleanupStatement(stmt, st) ==
    CASE stmt = "removeEventListeners" -> [st EXCEPT !.listeners = {}]
      [] stmt = "removeChild"          -> [st EXCEPT !.scene.attached = FALSE]
      [] stmt = "renderer.dispose"     -> [st EXCEPT !.scene.disposed = TRUE]
      [] stmt = "geometry.dispose"     -> [st EXCEPT !.thrown = TRUE]
      [] stmt = "materials.dispose"    -> [st EXCEPT !.thrown = TRUE]
      [] stmt = "scene.clear"          -> [st EXCEPT !.scene.cleared = TRUE]

\* The statements run in order until one throws.
RECURSIVE RunCleanup(_, _)
RunCleanup(stmts, st) ==
    IF stmts = <<>> \/ st.thrown THEN st
    ELSE RunCleanup(Tail(stmts), CleanupStatement(Head(stmts), st))

\* Lines 253-265 in source order; the eight removals of lines 253-260 are
\* one statement here.
CleanupOrderResourcesFirst ==
    <<"removeChild", "renderer.dispose", "geometry.dispose",
      "materials.dispose", "scene.clear", "removeEventListeners">>
CleanupOrder ==
    <<"removeEventListeners", "removeChild", "renderer.dispose",
      "geometry.dispose", "materials.dispose", "scene.clear">>

Cleanup(ls, sc) ==
    RunCleanup(CleanupOrder, [listeners |-> ls, scene |-> sc, thrown |-> FALSE])

CleanedScene(sc) == Cleanup({}, sc).scene

\* The leaderboard effect's cleanup, line 84.
KeepLeaderboardListener == UNCHANGED snapshotSubscribed
unsubscribeLeaderboard == snapshotSubscribed' = FALSE

\* The leaderboard effect (lines 66-86) as React runs it after a render in
\* which db or isAuthReady changed, or at set-up: subscribe when both hold.
\* A new subscription is owed an initial snapshot.
LeaderboardEffect(d, ready) ==
    IF d /\ ready
    THEN snapshotSubscribed' = TRUE /\ snapshotPending' = TRUE
    ELSE UNCHANGED <<snapshotSubscribed, snapshotPending>>

\* The test of line 27.
ConfigMissingIgnored == FALSE
ConfigMissing == ~firebaseConfig

\* Set-up of the three effects, in declaration order.
Mount ==
    /\ ~mounted /\ mountCount < MaxMounts
    /\ mounted' = TRUE /\ mountCount' = mountCount + 1
    \* lines 26-63
    /\ IF ConfigMissing
       THEN /\ message' = Msg("ConfigMissing", 0)
            /\ UNCHANGED <<db, auth, authSubscribed, authEventPending>>
       ELSE /\ db' = TRUE /\ auth' = TRUE
            /\ authSubscribed' = TRUE /\ authEventPending' = TRUE
            /\ UNCHANGED message
    \* lines 66-86, after the render that follows setDb
    /\ LeaderboardEffect(db', isAuthReady)
    \* lines 129-250
    /\ scenes' = Append(scenes, NewScene(containerSize))
    /\ cubelets' = BuildCubelets(mountCount + 1)
    /\ groupChildren' = groupChildren \o BuildCubelets(mountCount + 1)
    /\ listeners' = {"resize"} \cup Mouse \cup Touch
    /\ isDragging' = FALSE /\ previousMousePosition' = [x |-> 0, y |-> 0]
    /\ drag' = NoDrag
    /\ lastAct' = "Mount" /\ UNCHANGED startedAt
    /\ UNCHANGED <<configVars, userId, isAuthReady, leaderboardData, score,
                   startTime, isPlaying, view, currentUser, signInPending,
                   signInCalls, storeDocs, appended, inflight, addDocCalls, now,
                   containerSize, cubeSize, gap, rotation>>

\* Clean-up of the three effects, in declaration order.
Unmount ==
    /\ mounted
    /\ mounted' = FALSE
    /\ authSubscribed' = FALSE                        \* line 62
    /\ unsubscribeLeaderboard                         \* line 84
    /\ listeners' = Cleanup(listeners, scenes[Len(scenes)]).listeners
    /\ scenes' = [scenes EXCEPT ![Len(scenes)] = CleanedScene(@)]
    /\ lastAct' = "Unmount" /\ UNCHANGED startedAt
    /\ UNCHANGED <<configVars, reactVars, mountCount, authEventPending,
                   currentUser, signInPending, signInCalls, storeDocs, appended,
                   snapshotPending, inflight, addDocCalls, now,
                   containerSize, cubeSize, gap, cubelets, groupChildren,
                   gestureVars>>

(***************************************************************************)
(* Identity provider (lines 40-60)                                         *)
(***************************************************************************)
\* React re-renders after a handler's state updates.
Rerender == view' = Render(userId', score', isPlaying')

\* The onAuthStateChanged callback, lines 40-60, up to its await.  With a
\* user: lines 42-43, then the render, then the leaderboard effect when
\* isAuthReady changed.  Without: a sign-in is started (lines 48-53), by
\* custom token or anonymously; both are one awaited promise.
AuthStateChanged ==
    /\ authSubscribed /\ authEventPending
    /\ authEventPending' = FALSE
    /\ IF currentUser # NoUser
       THEN /\ userId' = currentUser /\ isAuthReady' = TRUE
            /\ IF ~isAuthReady
               THEN LeaderboardEffect(db, TRUE)
               ELSE UNCHANGED <<snapshotSubscribed, snapshotPending>>
            /\ UNCHANGED <<signInPending, signInCalls>>
       ELSE /\ signInCalls < MaxSignIns
            /\ signInPending' = TRUE /\ signInCalls' = signInCalls + 1
            /\ UNCHANGED <<userId, isAuthReady, snapshotSubscribed,
                           snapshotPending>>
    /\ lastAct' = "AuthStateChanged" /\ UNCHANGED startedAt
    /\ UNCHANGED <<configVars, db, auth, leaderboardData, score, startTime,
                   isPlaying, message, lifeVars, authSubscribed, currentUser,
                   storeDocs, appended, inflight, addDocCalls, now, sceneVars,
                   gestureVars>>
    /\ Rerender

\* The awaited sign-in succeeds (lines 49-53): the provider now has a user
\* and owes every listener a callback.
SignInResolved ==
    /\ signInPending
    /\ signInPending' = FALSE /\ currentUser' = Uid
    /\ authEventPending' = TRUE
    /\ lastAct' = "SignInResolved" /\ UNCHANGED startedAt
    /\ UNCHANGED <<configVars, reactVars, lifeVars, authSubscribed,
                   signInCalls, storeVars, now, sceneVars, gestureVars>>

\* The awaited sign-in fails: the catch of lines 55-58.
SignInRejected ==
    /\ signInPending
    /\ signInPending' = FALSE
    /\ message' = Msg("AuthError", 0)
    /\ lastAct' = "SignInRejected" /\ UNCHANGED startedAt
    /\ UNCHANGED <<configVars, db, auth, userId, isAuthReady, leaderboardData,
                   score, startTime, isPlaying, view, lifeVars,
                   authSubscribed, authEventPending, currentUser, signInCalls,
                   storeVars, now, sceneVars, gestureVars>>

(***************************************************************************)
(* Session controller and submit (lines 89-126)                            *)
(***************************************************************************)
\* Date.now() moves on.
Tick ==
    /\ \E d \in TickSteps :
          /\ now + d <= ClockEpoch + MaxSeconds * 1000
          /\ now' = now + d
    /\ lastAct' = "Tick" /\ UNCHANGED startedAt
    /\ UNCHANGED <<configVars, reactVars, lifeVars, authVars, storeVars,
                   sceneVars, gestureVars>>

\* lines 110-115
startGameKeepScore ==
    /\ mounted
    /\ startTime' = now /\ startedAt' = now
    /\ isPlaying' = TRUE
    /\ message' = Msg("GameStarted", 0)
    /\ lastAct' = "startGame"
    /\ UNCHANGED <<configVars, db, auth, userId, isAuthReady, leaderboardData,
                   score, lifeVars, authVars, storeVars, now, sceneVars,
                   gestureVars>>
    /\ Rerender
startGame ==
    /\ mounted
    /\ score' = 0
    /\ startTime' = now /\ startedAt' = now
    /\ isPlaying' = TRUE
    /\ message' = Msg("GameStarted", 0)
    /\ lastAct' = "startGame"
    /\ UNCHANGED <<configVars, db, auth, userId, isAuthReady, leaderboardData,
                   lifeVars, authVars, storeVars, now, sceneVars, gestureVars>>
    /\ Rerender

ScoreForNoFloor(elapsed) == (elapsed * 10) \div 1000
\* lines 123-124: Math.floor(elapsed / 1000) * 10
ScoreFor(elapsed) == (elapsed \div 1000) * 10

\* lines 117-126; the message of line 119 carries the score of the render
\* the handler was created in.
endGame ==
    /\ mounted
    /\ isPlaying' = FALSE
    /\ message' = Msg("GameOver", score)
    /\ IF TruthyNum(startTime)
       THEN score' = ScoreFor(now - startTime)
       ELSE UNCHANGED score
    /\ lastAct' = "endGame" /\ UNCHANGED startedAt
    /\ UNCHANGED <<configVars, db, auth, userId, isAuthReady, leaderboardData,
                   startTime, lifeVars, authVars, storeVars, now, sceneVars,
                   gestureVars>>
    /\ Rerender

SubmitGuardIdentityOnly == (~db) \/ (~TruthyStr(userId))
\* The guard of line 90.
SubmitGuard == (~db) \/ (~TruthyStr(userId)) \/ score = 0

\* The document of lines 96-100 (the server timestamp is not modelled).
ScoreRecordNoIdentity == [userId |-> NoUser, score |-> score]
ScoreRecord == [userId |-> userId, score |-> score]

\* lines 89-100, up to the await of addDoc.
submitScore ==
    /\ mounted
    /\ IF SubmitGuard
       THEN /\ message' = Msg("CannotSubmit", 0)
            /\ UNCHANGED <<inflight, addDocCalls>>
       ELSE /\ addDocCalls < MaxWrites
            /\ inflight' = Append(inflight, ScoreRecord)
            /\ addDocCalls' = addDocCalls + 1
            /\ UNCHANGED message
    /\ lastAct' = "submitScore" /\ UNCHANGED startedAt
    /\ UNCHANGED <<configVars, db, auth, userId, isAuthReady, leaderboardData,
                   score, startTime, isPlaying, view, lifeVars, authVars,
                   storeDocs, appended, snapshotSubscribed, snapshotPending, now,
                   sceneVars, gestureVars>>

\* The store accepts the oldest outstanding write; the await of line 96
\* returns and line 101 runs.  The collection changed, so the store has a
\* new snapshot of the query to emit.
AddDocResolved ==
    /\ inflight # <<>>
    /\ appended < MaxAppends
    /\ storeDocs' = Append(storeDocs, Head(inflight).score)
    /\ appended' = appended + 1
    /\ inflight' = Tail(inflight)
    /\ snapshotPending' = TRUE
    /\ message' = Msg("Submitted", 0)
    /\ lastAct' = "AddDocResolved" /\ UNCHANGED startedAt
    /\ UNCHANGED <<configVars, db, auth, userId, isAuthReady, leaderboardData,
                   score, startTime, isPlaying, view, lifeVars, authVars,
                   snapshotSubscribed, addDocCalls, now, sceneVars,
                   gestureVars>>

\* The store rejects the oldest outstanding write: the catch of lines
\* 103-106.
AddDocRejectedRetry ==
    /\ inflight # <<>>
    /\ addDocCalls < MaxWrites
    /\ inflight' = Append(Tail(inflight), Head(inflight))
    /\ addDocCalls' = addDocCalls + 1
    /\ message' = Msg("SubmitFailed", 0)
    /\ lastAct' = "AddDocRejected" /\ UNCHANGED startedAt
    /\ UNCHANGED <<configVars, db, auth, userId, isAuthReady, leaderboardData,
                   score, startTime, isPlaying, view, lifeVars, authVars,
                   storeDocs, appended, snapshotSubscribed, snapshotPending,
                   now, sceneVars, gestureVars>>
AddDocRejected ==
    /\ inflight # <<>>
    /\ inflight' = Tail(inflight)
    /\ message' = Msg("SubmitFailed", 0)
    /\ lastAct' = "AddDocRejected" /\ UNCHANGED startedAt
    /\ UNCHANGED <<configVars, db, auth, userId, isAuthReady, leaderboardData,
                   score, startTime, isPlaying, view, lifeVars, authVars,
                   storeDocs, appended, snapshotSubscribed, snapshotPending,
                   addDocCalls, now, sceneVars, gestureVars>>

(***************************************************************************)
(* Remote store and the leaderboard listener (lines 73-82)                 *)
(***************************************************************************)
\* Another client appends a document to the collection.
RemoteWrite ==
    /\ appended < MaxAppends
    /\ \E s \in Scores : storeDocs' = Append(storeDocs, s)
    /\ appended' = appended + 1
    /\ snapshotPending' = TRUE
    /\ lastAct' = "RemoteWrite" /\ UNCHANGED startedAt
    /\ UNCHANGED <<configVars, reactVars, lifeVars, authVars,
                   snapshotSubscribed, inflight, addDocCalls, now, sceneVars,
                   gestureVars>>

\* The store emits its snapshot of the query.  It reaches the callback of
\* lines 73-78 only while the listener is registered.
StoreEmit ==
    /\ snapshotPending
    /\ snapshotPending' = FALSE
    /\ IF snapshotSubscribed
       THEN leaderboardData' = SortByScore(SnapshotDocs(storeDocs))
       ELSE UNCHANGED leaderboardData
    /\ lastAct' = "StoreEmit" /\ UNCHANGED startedAt
    /\ UNCHANGED <<configVars, db, auth, userId, isAuthReady, score,
                   startTime, isPlaying, message, view, lifeVars, authVars,
                   storeDocs, appended, snapshotSubscribed, inflight, addDocCalls, now,
                   sceneVars, gestureVars>>

\* The listener fails: the error callback of lines 79-82.  The store ends a
\* listener it has failed.
SnapshotError ==
    /\ snapshotSubscribed
    /\ snapshotSubscribed' = FALSE
    /\ message' = Msg("LeaderboardError", 0)
    /\ lastAct' = "SnapshotError" /\ UNCHANGED startedAt
    /\ UNCHANGED <<configVars, db, auth, userId, isAuthReady, leaderboardData,
                   score, startTime, isPlaying, view, lifeVars, authVars,
                   storeDocs, appended, snapshotPending, inflight, addDocCalls, now,
                   sceneVars, gestureVars>>

(***************************************************************************)
(* Scene host: frames and resize (lines 195-210)                           *)
(***************************************************************************)
\* lines 196-199 on the scene of one effect run: request the next frame,
\* then render with that run's renderer, released or not.
Animate(sc) ==
    [sc EXCEPT !.frameRequested = TRUE,
               !.frames = Min(@ + 1, MaxFrames),
               !.staleFrames = IF sc.disposed THEN Min(@ + 1, MaxFrames) ELSE @]

\* The browser runs a requested frame callback.
AnimationFrame ==
    /\ \E k \in 1..Len(scenes) :
          /\ scenes[k].frameRequested
          /\ scenes' = [scenes EXCEPT ![k] = Animate(@)]
    /\ lastAct' = "AnimationFrame" /\ UNCHANGED startedAt
    /\ UNCHANGED <<configVars, reactVars, lifeVars, authVars, storeVars, now,
                   containerSize, listeners, cubeSize, gap, cubelets,
                   groupChildren, gestureVars>>

handleResizeKeepAspect(sc, size) == [sc EXCEPT !.size = size]
\* lines 203-209 on the scene of the current effect run.
handleResize(sc, size) ==
    [sc EXCEPT !.aspect = Quotient(size[1], size[2]), !.size = size]

\* The window is resized: the layout gives the container a size and the
\* resize event is dispatched to the listener of line 210, if registered.
WindowResize ==
    /\ \E size \in Sizes :
          /\ containerSize' = size
          /\ IF "resize" \in listeners
             THEN scenes' = [scenes EXCEPT ![Len(scenes)] = handleResize(@, size)]
             ELSE UNCHANGED scenes
    /\ lastAct' = "WindowResize" /\ UNCHANGED startedAt
    /\ UNCHANGED <<configVars, reactVars, lifeVars, authVars, storeVars, now,
                   listeners, cubeSize, gap, cubelets, groupChildren,
                   gestureVars>>

\* The layout gives the container another size while the window keeps its
\* own (the page's content or scroll bar changed): no resize event.
ContainerResize ==
    /\ \E size \in Sizes \ {containerSize} : containerSize' = size
    /\ lastAct' = "ContainerResize" /\ UNCHANGED startedAt
    /\ UNCHANGED <<configVars, reactVars, lifeVars, authVars, storeVars, now,
                   scenes, listeners, cubeSize, gap, cubelets, groupChildren,
                   gestureVars>>

(***************************************************************************)
(* Gesture tracker (lines 213-249)                                         *)
(***************************************************************************)
rotationSpeed == 5            \* 0.005, line 231
Thrown == -3                  \* the evaluation threw a TypeError

\* A pointer event: a mouse event has clientX/clientY and no touches; a
\* touch event has touches[0].clientX/clientY and no clientX/clientY.
Events == [kind : {"mouse", "touch"}, x : 0..MaxCoord, y : 0..MaxCoord]
clientOf(e, c) == IF e.kind = "mouse" THEN c ELSE Undefined

\* `e.clientX || e.touches[0].clientX` (lines 218, 223, 224) for the
\* coordinate c of event e: a falsy clientX (undefined, or 0) goes on to
\* e.touches[0], which throws when the event has no touches.
Coord(e, c) ==
    IF TruthyNum(clientOf(e, c)) THEN clientOf(e, c)
    ELSE IF e.kind = "touch" THEN c ELSE Thrown

Press(e) == [pressed |-> TRUE, moved |-> FALSE, xn |-> e.x, yn |-> e.y,
             yawDue |-> rotation.y, pitchDue |-> rotation.x]
Sample(e) == [pressed |-> drag.pressed, moved |-> drag.pressed,
              xn |-> e.x, yn |-> e.y,
              yawDue |-> drag.yawDue + rotationSpeed * (e.x - drag.xn),
              pitchDue |-> drag.pitchDue + rotationSpeed * (e.y - drag.yn)]

\* lines 216-219
onMouseDown ==
    /\ \E e \in Events :
          /\ (IF e.kind = "mouse" THEN "mousedown" ELSE "touchstart") \in listeners
          /\ isDragging' = TRUE
          /\ IF Coord(e, e.x) = Thrown \/ Coord(e, e.y) = Thrown
             THEN UNCHANGED previousMousePosition
             ELSE previousMousePosition' = [x |-> Coord(e, e.x), y |-> Coord(e, e.y)]
          /\ drag' = Press(e)
    /\ lastAct' = "onMouseDown" /\ UNCHANGED startedAt
    /\ UNCHANGED <<configVars, reactVars, lifeVars, authVars, storeVars, now,
                   sceneVars, rotation>>

\* lines 221-236
onMouseMove ==
    /\ \E e \in Events :
          /\ (IF e.kind = "mouse" THEN "mousemove" ELSE "touchmove") \in listeners
          /\ IF ~isDragging
             THEN UNCHANGED <<rotation, previousMousePosition, drag>>
             ELSE /\ drag' = Sample(e)
                  /\ IF Coord(e, e.x) = Thrown \/ Coord(e, e.y) = Thrown
                     THEN UNCHANGED <<rotation, previousMousePosition>>
                     ELSE LET deltaMove ==
                                [x |-> Coord(e, e.x) - previousMousePosition.x,
                                 y |-> Coord(e, e.y) - previousMousePosition.y]
                          IN /\ rotation' =
                                  [x |-> rotation.x + deltaMove.y * rotationSpeed,
                                   y |-> rotation.y + deltaMove.x * rotationSpeed]
                             /\ Abs(rotation'.x) <= MaxTurn * rotationSpeed
                             /\ Abs(rotation'.y) <= MaxTurn * rotationSpeed
                             /\ previousMousePosition' =
                                  [x |-> Coord(e, e.x), y |-> Coord(e, e.y)]
    /\ lastAct' = "onMouseMove" /\ UNCHANGED startedAt
    /\ UNCHANGED <<configVars, reactVars, lifeVars, authVars, storeVars, now,
                   sceneVars, isDragging>>

\* lines 238-240, for mouseup, mouseleave and touchend
onMouseUpEndsGame ==
    /\ \E type \in {"mouseup", "mouseleave", "touchend"} : type \in listeners
    /\ isDragging' = FALSE
    /\ drag' = NoDrag
    /\ isPlaying' = FALSE
    /\ lastAct' = "onMouseUp" /\ UNCHANGED startedAt
    /\ UNCHANGED <<configVars, db, auth, userId, isAuthReady, leaderboardData,
                   score, startTime, message, view, lifeVars, authVars,
                   storeVars, now, sceneVars, rotation, previousMousePosition>>
onMouseUp ==
    /\ \E type \in {"mouseup", "mouseleave", "touchend"} : type \in listeners
    /\ isDragging' = FALSE
    /\ drag' = NoDrag
    /\ lastAct' = "onMouseUp" /\ UNCHANGED startedAt
    /\ UNCHANGED <<configVars, reactVars, lifeVars, authVars, storeVars, now,
                   sceneVars, rotation, previousMousePosition>>

(***************************************************************************)
(* Specifications                                                          *)
(***************************************************************************)
Next ==
    \/ Mount \/ Unmount
    \/ AuthStateChanged \/ SignInResolved \/ SignInRejected
    \/ Tick \/ startGame \/ endGame \/ submitScore
    \/ AddDocResolved \/ AddDocRejected
    \/ RemoteWrite \/ StoreEmit \/ SnapshotError
    \/ AnimationFrame \/ WindowResize \/ ContainerResize
    \/ onMouseDown \/ onMouseMove \/ onMouseUp

Spec == Init /\ [][Next]_vars

\* The session controller and submit, with the lifecycle and the identity
\* provider they depend on.
SessionNext ==
    \/ Mount \/ Unmount
    \/ AuthStateChanged \/ SignInResolved \/ SignInRejected
    \/ Tick \/ startGame \/ endGame \/ submitScore
    \/ AddDocResolved \/ AddDocRejected

InitSession == Init /\ storeDocs = <<>>

SpecSession == InitSession /\ [][SessionNext]_vars

\* The leaderboard listener, with the lifecycle, the identity provider and
\* the store it depends on.
LeaderboardNext ==
    \/ Mount \/ Unmount
    \/ AuthStateChanged \/ SignInResolved \/ SignInRejected
    \/ RemoteWrite \/ StoreEmit \/ SnapshotError

SpecLeaderboard == Init /\ [][LeaderboardNext]_vars

\* The scene host: lifecycle, frames, resize.
SceneNext ==
    \/ Mount \/ Unmount
    \/ AnimationFrame \/ WindowResize \/ ContainerResize

InitScene == Init /\ firebaseConfig = TRUE /\ storeDocs = <<>>

SpecScene == InitScene /\ [][SceneNext]_vars

\* The gesture tracker on the mounted scene.
GestureNext ==
    \/ Mount \/ Unmount
    \/ onMouseDown \/ onMouseMove \/ onMouseUp

SpecGesture == InitScene /\ [][GestureNext]_vars

\* The gesture tracker next to the session controller, on one mounted
\* component with the clock standing still.
IndependenceNext ==
    \/ Mount
    \/ startGame \/ endGame
    \/ onMouseDown \/ onMouseMove \/ onMouseUp

SpecIndependence == InitScene /\ [][IndependenceNext]_vars

\* The geometry builder over a range of cell sizes and gaps: sizes are the
\* even numbers (the halvings of lines 149-150 are then exact), gaps any.
InitGeometry ==
    /\ InitCommon
    /\ firebaseConfig = TRUE
    /\ storeDocs = <<>>
    /\ cubeSize \in {2 * k : k \in 1..MaxCell} \cup {CubeSizeConst}
    /\ gap \in (1..MaxCell) \cup {GapConst}

GeometryNext == Mount \/ Unmount

SpecGeometry == InitGeometry /\ [][GeometryNext]_vars

(***************************************************************************)
(* Properties                                                              *)
(***************************************************************************)
CurrentScene == scenes[Len(scenes)]

\* C1: while a drag is in progress and at least one move sample has
\* followed the press, the group's yaw has changed since the press by
\* rotationSpeed times the x distance from the press to the last sample,
\* and its pitch by rotationSpeed times the y distance, whatever the
\* samples in between and whether the coordinates are 0 or not: the
\* orientation is the orientation due.
C1_DragTurnsByTotalDelta ==
    (isDragging /\ drag.pressed /\ drag.moved) =>
        /\ rotation.y = drag.yawDue
        /\ rotation.x = drag.pitchDue

\* C2: an end invoked on a playing session leaves the session idle with
\* score = floor((t1 - t0) / 1000) * 10, t0 the clock at the start and t1
\* the clock at the end.
C2_EndScoresElapsedSeconds ==
    [][(lastAct' = "endGame" /\ isPlaying) =>
          /\ ~isPlaying'
          /\ \E secs \in 0..MaxSeconds + 1 :
                /\ secs * 1000 <= now' - startedAt
                /\ now' - startedAt < (secs + 1) * 1000
                /\ score' = secs * 10]_vars

C2_Witness ==
    /\ lastAct = "endGame" /\ ~isPlaying
    /\ now - startedAt = 1400 /\ score = 10

\* C3: a submit invoked while score is 0 or while the identity is absent
\* makes no write to the store and sets the status message to the
\* rejection text.
C3_SubmitRejectedWithoutWrite ==
    [][(lastAct' = "submitScore" /\ (score = 0 \/ userId = NoUser)) =>
          /\ addDocCalls' = addDocCalls /\ inflight' = inflight
          /\ storeDocs' = storeDocs
          /\ message' = Msg("CannotSubmit", 0)]_vars

C3_Witness ==
    /\ lastAct = "submitScore" /\ score = 0 /\ userId # NoUser
    /\ message = Msg("CannotSubmit", 0) /\ addDocCalls = 0

\* C4: the clean-up leaves no leaderboard listener registered, and while
\* the component is unmounted no step changes the leaderboard state,
\* whatever the store emits.
C4_NoLeaderboardUpdateAfterUnmount ==
    [][/\ (~mounted') => ~snapshotSubscribed'
       /\ (~mounted) => leaderboardData' = leaderboardData]_vars

C4_Witness ==
    /\ ~mounted /\ mountCount > 0 /\ lastAct = "StoreEmit"
    /\ Len(leaderboardData) # Min(Len(storeDocs), QueryLimit)

\* C5: once the scene effect's clean-up has run, no listener registered at
\* mount remains, the renderer is released and its canvas removed, and the
\* geometry of each of the 27 cells and every material is released.
C5_TeardownReleasesEverything ==
    (~mounted /\ mountCount > 0) =>
        /\ listeners = {}
        /\ CurrentScene.disposed /\ ~CurrentScene.attached
        /\ CurrentScene.geometriesDisposed = CellCount
        /\ CurrentScene.materialsDisposed = MaterialCount

\* C6: a scene whose effect has been cleaned up has no frame callback
\* requested and has drawn no frame with its released renderer.
C6_NoFrameAfterUnmount ==
    \A k \in 1..Len(scenes) :
        scenes[k].disposed =>
            ~scenes[k].frameRequested /\ scenes[k].staleFrames = 0

\* C7: right after a snapshot is delivered to the listener, the leaderboard
\* holds exactly the snapshot's entries (the first QueryLimit documents at
\* most), by non-increasing score, entries of equal score in snapshot order.
C7_LeaderboardSortedStable ==
    (lastAct = "StoreEmit" /\ snapshotSubscribed) =>
        LET n == Len(leaderboardData) IN
        /\ n <= QueryLimit
        /\ n = Min(Len(storeDocs), QueryLimit)
        /\ {leaderboardData[i] : i \in 1..n} =
              {[id |-> i, score |-> storeDocs[i]] : i \in 1..n}
        /\ \A i, j \in 1..n :
              i < j =>
                 /\ leaderboardData[i].score >= leaderboardData[j].score
                 /\ leaderboardData[i].score = leaderboardData[j].score
                       => leaderboardData[i].id < leaderboardData[j].id

C7_Witness ==
    /\ lastAct = "StoreEmit" /\ snapshotSubscribed
    /\ storeDocs = <<50, 90, 90>>
    /\ leaderboardData = <<[id |-> 2, score |-> 90], [id |-> 3, score |-> 90],
                           [id |-> 1, score |-> 50]>>

\* C8: the submit button is disabled exactly when the identity is absent,
\* the score is zero or a game is in progress; the start button is shown
\* iff not playing, the end button iff playing, so exactly one of them.
C8_Buttons ==
    /\ view.submitDisabled <=> (userId = NoUser \/ score = 0 \/ isPlaying)
    /\ view.startShown <=> ~isPlaying
    /\ view.endShown <=> isPlaying
    /\ view.startShown # view.endShown

C8_Witness ==
    /\ ~view.submitDisabled /\ view.startShown
    /\ userId # NoUser /\ score > 0 /\ ~isPlaying

\* C9 as stated: while mounted, the drawable size is the container's size
\* and the camera aspect its width over its height, after every resize of
\* the container.
C9_DrawableTracksContainer ==
    mounted =>
        /\ CurrentScene.size = containerSize
        /\ CurrentScene.aspect[1] * containerSize[2] =
              CurrentScene.aspect[2] * containerSize[1]

\* C9 as amended: right after a window resize event handled while mounted,
\* the drawable size is the container's size (w, h) and the camera aspect
\* is w / h.
C9_WindowResizeSetsAspectAndSize ==
    (mounted /\ lastAct = "WindowResize") =>
        /\ CurrentScene.size = containerSize
        /\ CurrentScene.aspect[1] * containerSize[2] =
              CurrentScene.aspect[2] * containerSize[1]

C9_Witness ==
    /\ mounted /\ lastAct = "WindowResize"
    /\ containerSize = <<400, 200>> /\ CurrentScene.size = <<400, 200>>
    /\ CurrentScene.aspect = <<2, 1>>

\* C10: the builder's array holds 27 cells, one per grid coordinate of
\* {0,1,2}^3, each at start + i * (s + g) per axis with
\* start = -((s + g) * 3 - g) / 2 + s / 2; the positions are symmetric about
\* the origin and the least distance between two cells is s + g.
SqDist(p, q) ==
    (p[1] - q[1]) * (p[1] - q[1]) + (p[2] - q[2]) * (p[2] - q[2])
        + (p[3] - q[3]) * (p[3] - q[3])
Cells == {Mesh(cubelets[i], cubeSize, gap) : i \in 1..Len(cubelets)}
C10_Geometry ==
    mounted =>
        /\ Len(cubelets) = 27 /\ Cardinality(Cells) = 27
        /\ {c.grid : c \in Cells} = (0..2) \X (0..2) \X (0..2)
        /\ \A c \in Cells : \A a \in 1..3 :
              2 * c.position[a] =
                 cubeSize - ((cubeSize + gap) * 3 - gap)
                    + 2 * c.grid[a] * (cubeSize + gap)
        /\ \A c \in Cells : \E d \in Cells :
              \A a \in 1..3 : d.position[a] = -c.position[a]
        /\ \A c, d \in Cells :
              c # d => SqDist(c.position, d.position)
                          >= (cubeSize + gap) * (cubeSize + gap)
        /\ \E c, d \in Cells :
              c # d /\ SqDist(c.position, d.position)
                          = (cubeSize + gap) * (cubeSize + gap)

C10_Witness ==
    /\ mounted /\ cubeSize = CubeSizeConst /\ gap = GapConst
    /\ Len(cubelets) = 27
    /\ Mesh(cubelets[1], cubeSize, gap).position = <<-210, -210, -210>>

\* C11: a press leaves the tracker dragging with the pointer position of
\* the press stored; a release or leave leaves it idle; a move sample while
\* idle changes neither the orientation nor the stored position; and the
\* orientation changes only in a move handled while dragging.
C11_GestureStateMachine ==
    [][/\ lastAct' = "onMouseDown" =>
             /\ isDragging'
             /\ previousMousePosition' = [x |-> drag'.xn, y |-> drag'.yn]
       /\ lastAct' = "onMouseUp" => ~isDragging'
       /\ (lastAct' = "onMouseMove" /\ ~isDragging) =>
             /\ rotation' = rotation
             /\ previousMousePosition' = previousMousePosition
       /\ rotation' # rotation =>
             (lastAct' = "onMouseMove" /\ isDragging)]_vars

\* C12: a start, from an idle or a playing session alike, leaves score 0,
\* the start time at the current clock and playing true; and in every
\* state in which playing is true, score is 0.
C12_StartResets ==
    [][/\ lastAct' = "startGame" =>
             score' = 0 /\ startTime' = now /\ now' = now /\ isPlaying'
       /\ isPlaying' => score' = 0]_vars

C12_Witness ==
    /\ lastAct = "startGame" /\ isPlaying /\ score = 0
    /\ startTime = now /\ now > ClockEpoch
    /\ addDocCalls > 0

\* C13: an end invoked while the session is idle leaves score, start time
\* and playing as they were.
C13_EndWhileIdleIsNoOp ==
    [][(lastAct' = "endGame" /\ ~isPlaying) =>
          /\ score' = score
          /\ startTime' = startTime
          /\ isPlaying' = isPlaying]_vars

\* C14: teardown removes every listener before it releases a graphics
\* resource: no pointer handler runs on a released render surface, and
\* whenever the current render surface is released no listener (resize,
\* mouse, touch) is left registered.
C14_ListenersRemovedBeforeRelease ==
    [][/\ lastAct' \in {"onMouseDown", "onMouseMove", "onMouseUp"} =>
             ~scenes[Len(scenes)].disposed
       /\ (Len(scenes') > 0 /\ scenes'[Len(scenes')].disposed) =>
             listeners' = {}]_vars

\* A teardown in the middle of a drag.
C14_Witness ==
    /\ lastAct = "Unmount" /\ ~mounted
    /\ Len(scenes) > 0 /\ CurrentScene.disposed /\ ~CurrentScene.attached
    /\ listeners = {}
    /\ drag.pressed /\ drag.moved

\* C15: in every state in which the scene is mounted the cube group holds
\* exactly the 27 cells that the latest scene construction built, however
\* many set-up and tear-down runs the component instance has been through.
C15_GroupHoldsExactlyTheCells ==
    mounted =>
        /\ Len(groupChildren) = CellCount
        /\ groupChildren = cubelets

\* C16: a submit whose write the store rejects ends there: the rejection
\* sets the failure message, leaves score, start time and playing as they
\* were and starts no write; a write is started only by a submit step, and
\* a submit step starts exactly one.
C16_RejectedSubmitIsTerminal ==
    [][/\ lastAct' = "AddDocRejected" =>
             /\ message' = Msg("SubmitFailed", 0)
             /\ score' = score
             /\ startTime' = startTime
             /\ isPlaying' = isPlaying
             /\ addDocCalls' = addDocCalls
             /\ inflight' = Tail(inflight)
       /\ addDocCalls' # addDocCalls =>
             /\ lastAct' = "submitScore"
             /\ addDocCalls' = addDocCalls + 1
             /\ Len(inflight') = Len(inflight) + 1]_vars

\* One submit, rejected, nothing outstanding afterwards.
C16_Witness ==
    /\ lastAct = "AddDocRejected"
    /\ message = Msg("SubmitFailed", 0)
    /\ addDocCalls = 1 /\ inflight = <<>>
    /\ score > 0 /\ ~isPlaying

\* C17: with the backend configuration missing there is never a sign-in
\* attempt, an identity or leaderboard subscription or a store write, and
\* the identity and the store handle stay absent; with or without the
\* configuration a mounted component has its scene set up on the page, a
\* frame requested and every resize, mouse and touch listener registered.
C17_ConfigMissingIsInert ==
    /\ ~firebaseConfig =>
          /\ signInCalls = 0 /\ ~signInPending
          /\ ~authSubscribed /\ ~authEventPending
          /\ ~snapshotSubscribed /\ ~snapshotPending
          /\ addDocCalls = 0 /\ inflight = <<>>
          /\ userId = NoUser /\ ~isAuthReady
          /\ ~db /\ ~auth
    /\ mounted =>
          /\ Len(scenes) = mountCount
          /\ CurrentScene.attached /\ ~CurrentScene.disposed
          /\ CurrentScene.frameRequested
          /\ listeners = {"resize"} \cup Mouse \cup Touch

\* Without configuration: a game was played to a non-zero score and the
\* submit was refused.
C17_Witness ==
    /\ ~firebaseConfig /\ mounted
    /\ score > 0 /\ ~isPlaying
    /\ lastAct = "submitScore"
    /\ message = Msg("CannotSubmit", 0)
    /\ addDocCalls = 0
    /\ CurrentScene.frameRequested

C19_GameOverNamesFinalScore ==
    [][(lastAct' = "endGame" /\ isPlaying) =>
          message' = Msg("GameOver", score')]_vars

\* C20: a submit invoked while the rendered submit button is enabled passes
\* the guard and starts exactly one store write, carrying the current
\* identity and the current score; an identity is never present without
\* the store handle, and the leaderboard subscription is active only while
\* the store handle exists and authentication is ready.
C20_EnabledSubmitWritesOnce ==
    [][/\ (lastAct' = "submitScore" /\ ~view.submitDisabled) =>
             /\ ~SubmitGuard
             /\ userId # NoUser /\ score > 0
             /\ addDocCalls' = addDocCalls + 1
             /\ inflight' =
                  Append(inflight, [userId |-> userId, score |-> score])
       /\ userId' # NoUser => db'
       /\ snapshotSubscribed' => (db' /\ isAuthReady')]_vars

\* The first submit of a signed-in user with a score of 10.
C20_Witness ==
    /\ lastAct = "submitScore" /\ ~view.submitDisabled
    /\ addDocCalls = 1
    /\ inflight = <<[userId |-> Uid, score |-> 10]>>
    /\ snapshotSubscribed
====
